---- MODULE Spec2Model ----
(***************************************************************************)
(* The interaction state machine of the speech-to-text terminal program    *)
(* (main.go: model, Update, wrapText) together with the job runner it      *)
(* starts (processor: processAudioSTT).                                    *)
(*                                                                         *)
(* Strings that the program measures, splits or trims (the transcription)  *)
(* are sequences of one-character strings; strings it only stores and      *)
(* compares (paths, error messages, key names) are TLA+ strings.           *)
(***************************************************************************)
EXTENDS Integers, Sequences, FiniteSets, TLC

\* main.go:16-20, the iota constants of the mode.
StateSelectFile == 0
StateProcessing == 1
StateComplete == 2

\* Longest output the external transcription script writes, in characters.
MaxLen == 7

\* Characters of the script's output: a letter and the two kinds of
\* whitespace the program treats differently from letters.
Alphabet == {"a", " ", "\n"}

\* Terminal sizes the platform reports.  Width - 8 is the wrap width
\* (0, 1, 5, 8, 72), Height - 10 the transcription height before it is raised
\* to 5 (4, 5, 6, 14).
Widths == {8, 9, 13, 16, 80}
Heights == {14, 15, 16, 24}

\* Files the file picker can hand over.
Paths == {"/in/a.mp4", "/in/b.wav"}

\* Key names as tea.KeyMsg.String() gives them; "x" is any key the program
\* has no case for.
Keys == {"ctrl+c", "q", "up", "k", "down", "j", "home", "end", "enter", "x"}

\* The empty Go string, for the strings modelled as character sequences.
EmptyText == <<>>

VARIABLES
    state,            \* model.state
    selectedFile,     \* model.selectedFile ("" when unset)
    transcription,    \* model.transcription (EmptyText when unset)
    error,            \* model.error ("" when unset)
    width,            \* model.width
    height,           \* model.height
    scrollOffset,     \* model.scrollOffset
    maxScroll,        \* model.maxScroll
    spinnerTick,      \* a spinner.Tick command is in flight
    quitCmd,          \* a tea.Quit command is in flight
    exited,           \* Program.Run has returned
    jobPc,            \* position of the startProcessing command
    jobMsg,           \* the message the command returned, until it is handled
    inputPath,        \* AudioProcessor.InputPath of the running job
    tempDir,          \* the directory os.TempDir()/audio_stt exists
    tempFiles,        \* the files in it
    started,          \* number of startProcessing commands issued
    delivered,        \* number of job messages handled by Update
    wrapInput,        \* wrapText on its own: the text argument
    wrapWidth,        \* ... the width argument
    wrapOutput,       \* ... the lines of the last result
    wrapPass          \* ... how many times wrapText was applied

modelVars == <<state, selectedFile, transcription, error, width, height,
               scrollOffset, maxScroll>>
loopVars == <<spinnerTick, quitCmd, exited>>
jobVars == <<jobPc, jobMsg, inputPath, tempDir, tempFiles, started>>
wrapVars == <<wrapInput, wrapWidth, wrapOutput, wrapPass>>
vars == <<modelVars, loopVars, jobVars, delivered, wrapVars>>

----------------------------------------------------------------------------
(* Helpers of main.go *)

min(a, b) == IF a < b THEN a ELSE b

max(a, b) == IF a > b THEN a ELSE b

----------------------------------------------------------------------------
(* The string functions of the Go library the program calls, on character *)
(* sequences.                                                              *)

\* unicode.IsSpace, on the model's alphabet.
IsSpace(c) == c \in {" ", "\n"}

\* The characters of the model whose UTF-8 encoding takes two bytes.
TwoByte == {"é"}

\* len(s) of Go: the number of bytes of the string.
byteLen(s) == Len(s) + Cardinality({i \in DOMAIN s : s[i] \in TwoByte})

RECURSIVE TrimLeft(_)
TrimLeft(s) ==
    IF s # <<>> /\ IsSpace(Head(s)) THEN TrimLeft(Tail(s)) ELSE s

RECURSIVE TrimRight(_)
TrimRight(s) ==
    IF s # <<>> /\ IsSpace(s[Len(s)]) THEN TrimRight(SubSeq(s, 1, Len(s) - 1)) ELSE s

\* strings.TrimSpace
TrimSpace(s) == TrimRight(TrimLeft(s))

RECURSIVE FieldsFrom(_, _, _, _)
FieldsFrom(s, i, cur, acc) ==
    IF i > Len(s)
    THEN IF cur = <<>> THEN acc ELSE Append(acc, cur)
    ELSE IF IsSpace(s[i])
         THEN FieldsFrom(s, i + 1, <<>>, IF cur = <<>> THEN acc ELSE Append(acc, cur))
         ELSE FieldsFrom(s, i + 1, Append(cur, s[i]), acc)

\* strings.Fields: the maximal runs of non-space characters.
Fields(s) == FieldsFrom(s, 1, <<>>, <<>>)

RECURSIVE SplitFrom(_, _, _, _)
SplitFrom(s, i, cur, acc) ==
    IF i > Len(s)
    THEN Append(acc, cur)
    ELSE IF s[i] = "\n"
         THEN SplitFrom(s, i + 1, <<>>, Append(acc, cur))
         ELSE SplitFrom(s, i + 1, Append(cur, s[i]), acc)

\* strings.Split(s, "\n"): always at least one element, empty ones kept.
SplitLines(s) == SplitFrom(s, 1, <<>>, <<>>)

RECURSIVE JoinFrom(_, _)
JoinFrom(lines, i) ==
    IF i > Len(lines) THEN <<>>
    ELSE IF i = Len(lines) THEN lines[i]
    ELSE lines[i] \o <<"\n">> \o JoinFrom(lines, i + 1)

\* strings.Join(lines, "\n")
JoinLines(lines) == JoinFrom(lines, 1)

----------------------------------------------------------------------------
(* model.wrapText, main.go:220-255 *)

RECURSIVE wrapWords(_, _, _, _, _)
wrapWords(words, i, lines, currentLine, w) ==
    IF i > Len(words)
    THEN IF currentLine # <<>> THEN Append(lines, currentLine) ELSE lines
    ELSE LET word == words[i]
             testLine == (IF currentLine # <<>> THEN currentLine \o <<" ">>
                                                ELSE currentLine) \o word
         IN  IF byteLen(testLine) <= w
             THEN wrapWords(words, i + 1, lines, testLine, w)
             ELSE wrapWords(words, i + 1,
                            IF currentLine # <<>> THEN Append(lines, currentLine)
                                                  ELSE lines,
                            word, w)

wrapText(text, w) ==
    IF w <= 0 THEN text
    ELSE LET words == Fields(text)
         IN  IF Len(words) = 0 THEN text
             ELSE JoinLines(wrapWords(words, 1, <<>>, <<>>, w))

\* The lines the program counts and renders: the wrapped text split at "\n".
wrappedLines(text, w) == SplitLines(wrapText(text, w - 8))

\* main.go:124-127 and 259-262: the height of the transcription box.
transcriptionHeight(h) == IF h - 10 < 5 THEN 5 ELSE h - 10

\* computeMaxScroll with the height not raised to 5 (as line 202 of main.go
\* uses it).
computeMaxScrollNoFloor(text, w, h) ==
    LET totalLines == Len(wrappedLines(text, w))
    IN  IF totalLines > h - 10 THEN totalLines - (h - 10) ELSE 0

\* main.go:129-137: the scroll range stored when a transcription arrives.
computeMaxScroll(text, w, h) ==
    LET totalLines == Len(wrappedLines(text, w))
    IN  IF totalLines > transcriptionHeight(h)
        THEN totalLines - transcriptionHeight(h)
        ELSE 0

----------------------------------------------------------------------------
(* The job runner: processAudioSTT and transcribeAudio *)

\* Everything the transcription script can have written to its output file.
RawOutputs == UNION {[1..n -> Alphabet] : n \in 0..MaxLen}

\* The text transcribeAudio returns for an output without speech:
\* "No speech detected in the audio file."
NoSpeech ==
    <<"N", "o", " ", "s", "p", "e", "e", "c", "h", " ",
      "d", "e", "t", "e", "c", "t", "e", "d", " ", "i",
      "n", " ", "t", "h", "e", " ", "a", "u", "d", "i",
      "o", " ", "f", "i", "l", "e", ".">>

\* transcribeAudio's last lines: trim the file's content, and replace an empty
\* transcription by the notice.
transcriptionOf(raw) ==
    LET t == TrimSpace(raw)
    IN  IF t = EmptyText THEN NoSpeech ELSE t

\* Every text transcribeAudio can return.
Transcriptions == {transcriptionOf(raw) : raw \in RawOutputs}

\* The errors processAudioSTT returns, one per stage; the cause each wraps is
\* the external tool's and is left out.
ErrMkdir == "failed to create temp directory"
ErrDependencies == "dependency check failed"
ErrExtract == "audio extraction failed"
ErrTranscribe == "transcription failed"

NoMsg == [type |-> "none", text |-> EmptyText, err |-> ""]
processCompleteMsg(text) == [type |-> "complete", text |-> text, err |-> ""]
processErrorMsg(e) == [type |-> "error", text |-> EmptyText, err |-> e]

\* startProcessing's closure returns: the command's message goes to the event
\* loop.  deferred tells whether "defer os.RemoveAll(TempDir)" was reached.
jobReturn(msg, deferred) ==
    /\ jobPc' = "send"
    /\ jobMsg' = msg
    /\ IF deferred
       THEN tempDir' = FALSE /\ tempFiles' = {}
       ELSE UNCHANGED <<tempDir, tempFiles>>
    /\ UNCHANGED <<inputPath, started>>

jobStep(pc, files) ==
    /\ jobPc' = pc
    /\ tempFiles' = files
    /\ UNCHANGED <<jobMsg, inputPath, started>>

\* os.MkdirAll(processor.TempDir, 0755)
JobMkdirAll ==
    /\ ~exited
    /\ jobPc = "mkdir"
    /\ \E ok \in BOOLEAN :
          IF ok
          THEN tempDir' = TRUE /\ jobStep("deps", tempFiles)
          ELSE jobReturn(processErrorMsg(ErrMkdir), FALSE)
    /\ UNCHANGED <<modelVars, loopVars, delivered, wrapVars>>

\* JobCheckDependencies ending the command without a message when a tool is
\* missing.
JobCheckDependenciesNoMessage ==
    /\ ~exited
    /\ jobPc = "deps"
    /\ \E ok \in BOOLEAN :
          IF ok
          THEN UNCHANGED tempDir /\ jobStep("extract", tempFiles)
          ELSE UNCHANGED tempDir /\ jobStep("aborted", tempFiles)
    /\ UNCHANGED <<modelVars, loopVars, delivered, wrapVars>>

\* processor.checkDependencies()
JobCheckDependencies ==
    /\ ~exited
    /\ jobPc = "deps"
    /\ \E ok \in BOOLEAN :
          IF ok
          THEN UNCHANGED tempDir /\ jobStep("extract", tempFiles)
          ELSE jobReturn(processErrorMsg(ErrDependencies), TRUE)
    /\ UNCHANGED <<modelVars, loopVars, delivered, wrapVars>>

\* JobExtractAudio returning its error past the removal of the directory.
JobExtractAudioNoCleanup ==
    /\ ~exited
    /\ jobPc = "extract"
    /\ \E ok \in BOOLEAN :
          IF ok
          THEN UNCHANGED tempDir /\ jobStep("script", tempFiles \cup {"audio.wav"})
          ELSE jobReturn(processErrorMsg(ErrExtract), FALSE)
    /\ UNCHANGED <<modelVars, loopVars, delivered, wrapVars>>

\* processor.extractAudio(audioPath)
JobExtractAudio ==
    /\ ~exited
    /\ jobPc = "extract"
    /\ \E ok \in BOOLEAN :
          IF ok
          THEN UNCHANGED tempDir /\ jobStep("script", tempFiles \cup {"audio.wav"})
          ELSE jobReturn(processErrorMsg(ErrExtract), TRUE)
    /\ UNCHANGED <<modelVars, loopVars, delivered, wrapVars>>

\* transcribeAudio: os.WriteFile(scriptPath, ...)
JobWriteScript ==
    /\ ~exited
    /\ jobPc = "script"
    /\ \E ok \in BOOLEAN :
          IF ok
          THEN UNCHANGED tempDir /\ jobStep("python", tempFiles \cup {"transcribe.py"})
          ELSE jobReturn(processErrorMsg(ErrTranscribe), TRUE)
    /\ UNCHANGED <<modelVars, loopVars, delivered, wrapVars>>

\* JobTranscribe reporting an output without speech as an error.
JobTranscribeEmptyIsError ==
    /\ ~exited
    /\ jobPc = "python"
    /\ \/ jobReturn(processErrorMsg(ErrTranscribe), TRUE)
       \/ \E raw \in RawOutputs :
             IF TrimSpace(raw) = EmptyText
             THEN jobReturn(processErrorMsg(ErrTranscribe), TRUE)
             ELSE jobReturn(processCompleteMsg(transcriptionOf(raw)), TRUE)
    /\ UNCHANGED <<modelVars, loopVars, delivered, wrapVars>>

\* transcribeAudio: run the script, read transcription.txt, trim; then
\* processAudioSTT returns and its deferred RemoveAll runs.
JobTranscribe ==
    /\ ~exited
    /\ jobPc = "python"
    /\ \/ jobReturn(processErrorMsg(ErrTranscribe), TRUE)
       \/ \E text \in Transcriptions :
             jobReturn(processCompleteMsg(text), TRUE)
    /\ UNCHANGED <<modelVars, loopVars, delivered, wrapVars>>

\* model.startProcessing, called from Update with m.selectedFile already set:
\* the command starts processAudioSTT(m.selectedFile).
startProcessing ==
    /\ jobPc' = "mkdir"
    /\ inputPath' = selectedFile'
    /\ started' = started + 1
    /\ UNCHANGED <<jobMsg, tempDir, tempFiles>>

----------------------------------------------------------------------------
(* model.Update *)

\* scrollUp without the comparison against 0.
scrollUpUnclamped ==
    IF state = StateComplete /\ transcription # EmptyText
    THEN scrollOffset - 1 ELSE scrollOffset

\* case "up", "k"
scrollUp ==
    IF state = StateComplete /\ transcription # EmptyText /\ scrollOffset > 0
    THEN scrollOffset - 1 ELSE scrollOffset

\* scrollDown without the comparison against maxScroll.
scrollDownUnclamped ==
    IF state = StateComplete /\ transcription # EmptyText
    THEN scrollOffset + 1 ELSE scrollOffset

\* case "down", "j"
scrollDown ==
    IF state = StateComplete /\ transcription # EmptyText /\ scrollOffset < maxScroll
    THEN scrollOffset + 1 ELSE scrollOffset

\* case "home"
scrollHome ==
    IF state = StateComplete /\ transcription # EmptyText
    THEN 0 ELSE scrollOffset

\* case "end"
scrollEnd ==
    IF state = StateComplete /\ transcription # EmptyText
    THEN maxScroll ELSE scrollOffset

\* The inner switch on msg.String(), for the keys that do not quit.
scrollAfterKey(k) ==
    CASE k \in {"up", "k"} -> scrollUp
      [] k \in {"down", "j"} -> scrollDown
      [] k = "home" -> scrollHome
      [] k = "end" -> scrollEnd
      [] OTHER -> scrollOffset

\* selectFile without the assignment to m.selectedFile.
selectFileForgetsPath(path) ==
    /\ selectedFile' = selectedFile
    /\ state' = StateProcessing
    /\ spinnerTick' = TRUE
    /\ startProcessing

\* if didSelect, path := m.filepicker.DidSelectFile(msg); didSelect { ... }
selectFile(path) ==
    /\ selectedFile' = path
    /\ state' = StateProcessing
    /\ spinnerTick' = TRUE
    /\ startProcessing

\* delegate with a case for StateComplete that returns to the file picker on
\* enter, keeping the previous result.
delegateProcessAnother(k) ==
    IF state = StateSelectFile /\ k = "enter"
    THEN \E path \in Paths \cup {""} :
            IF path # ""
            THEN /\ selectedFile' = path
                 /\ state' = StateProcessing
                 /\ spinnerTick' = TRUE
                 /\ startProcessing
            ELSE UNCHANGED <<state, selectedFile, spinnerTick, jobVars>>
    ELSE IF state = StateComplete /\ k = "enter" /\ started < 2
         THEN /\ state' = StateSelectFile
              /\ UNCHANGED <<selectedFile, spinnerTick, jobVars>>
         ELSE UNCHANGED <<state, selectedFile, spinnerTick, jobVars>>

\* The switch on m.state that ends Update.  The file picker is the library's
\* widget: its directory and cursor are left out, and whether the key selects
\* an allowed file (and which) is any of the possible answers; only the
\* widget's select key, enter, can select.  In StateProcessing the message goes
\* to the spinner, which changes on tick messages only.
delegate(k) ==
    IF state = StateSelectFile /\ k = "enter"
    THEN \E path \in Paths \cup {""} :
            IF path # ""
            THEN selectFile(path)
            ELSE UNCHANGED <<state, selectedFile, spinnerTick, jobVars>>
    ELSE UNCHANGED <<state, selectedFile, spinnerTick, jobVars>>

\* case tea.KeyMsg
UpdateKey(k) ==
    /\ ~exited
    /\ IF k \in {"ctrl+c", "q"}
       THEN /\ quitCmd' = TRUE
            /\ UNCHANGED <<modelVars, spinnerTick, exited, jobVars, delivered, wrapVars>>
       ELSE /\ scrollOffset' = scrollAfterKey(k)
            /\ delegate(k)
            /\ UNCHANGED <<transcription, error, width, height, maxScroll,
                           quitCmd, exited, delivered, wrapVars>>

\* case tea.WindowSizeMsg
UpdateWindowSize(w, h) ==
    /\ ~exited
    /\ width' = w
    /\ height' = h
    /\ delegate("")
    /\ UNCHANGED <<transcription, error, scrollOffset, maxScroll,
                   quitCmd, exited, delivered, wrapVars>>

\* case processCompleteMsg
UpdateProcessComplete ==
    /\ ~exited
    /\ jobPc = "send"
    /\ jobMsg.type = "complete"
    /\ state' = StateComplete
    /\ transcription' = jobMsg.text
    /\ scrollOffset' = 0
    /\ maxScroll' = computeMaxScroll(jobMsg.text, width, height)
    /\ jobPc' = "done"
    /\ jobMsg' = NoMsg
    /\ delivered' = delivered + 1
    /\ UNCHANGED wrapVars
    /\ UNCHANGED <<selectedFile, error, width, height, loopVars,
                   inputPath, tempDir, tempFiles, started>>

\* UpdateProcessError showing a fixed text instead of the job's message.
UpdateProcessErrorGeneric ==
    /\ ~exited
    /\ jobPc = "send"
    /\ jobMsg.type = "error"
    /\ error' = "Error occurred"
    /\ state' = StateComplete
    /\ jobPc' = "done"
    /\ jobMsg' = NoMsg
    /\ delivered' = delivered + 1
    /\ UNCHANGED wrapVars
    /\ UNCHANGED <<selectedFile, transcription, width, height, scrollOffset,
                   maxScroll, loopVars, inputPath, tempDir, tempFiles, started>>

\* UpdateProcessError starting the job again after its first failure.
UpdateProcessErrorRetries ==
    /\ ~exited
    /\ jobPc = "send"
    /\ jobMsg.type = "error"
    /\ jobMsg' = NoMsg
    /\ delivered' = delivered + 1
    /\ UNCHANGED wrapVars
    /\ IF started < 2
       THEN /\ jobPc' = "mkdir"
            /\ started' = started + 1
            /\ UNCHANGED <<state, error>>
       ELSE /\ jobPc' = "done"
            /\ error' = jobMsg.err
            /\ state' = StateComplete
            /\ UNCHANGED started
    /\ UNCHANGED <<selectedFile, transcription, width, height, scrollOffset,
                   maxScroll, loopVars, inputPath, tempDir, tempFiles>>

\* case processErrorMsg
UpdateProcessError ==
    /\ ~exited
    /\ jobPc = "send"
    /\ jobMsg.type = "error"
    /\ error' = jobMsg.err
    /\ state' = StateComplete
    /\ jobPc' = "done"
    /\ jobMsg' = NoMsg
    /\ delivered' = delivered + 1
    /\ UNCHANGED wrapVars
    /\ UNCHANGED <<selectedFile, transcription, width, height, scrollOffset,
                   maxScroll, loopVars, inputPath, tempDir, tempFiles, started>>

\* case spinner.TickMsg: in StateProcessing the spinner answers with its next
\* tick command; in the other states the message is dropped and the chain of
\* ticks ends.
UpdateTick ==
    /\ ~exited
    /\ spinnerTick
    /\ spinnerTick' = (state = StateProcessing)
    /\ UNCHANGED <<modelVars, quitCmd, exited, jobVars, delivered, wrapVars>>

\* Quit with the event loop held up while the job runs.
QuitAfterJob ==
    /\ ~exited
    /\ quitCmd
    /\ jobPc \in {"idle", "send", "done"}
    /\ exited' = TRUE
    /\ UNCHANGED <<modelVars, spinnerTick, quitCmd, jobVars, delivered, wrapVars>>

\* The tea.Quit command's message reaches the event loop: Program.Run returns
\* and main ends the process, whatever the job is doing.
Quit ==
    /\ ~exited
    /\ quitCmd
    /\ exited' = TRUE
    /\ UNCHANGED <<modelVars, spinnerTick, quitCmd, jobVars, delivered, wrapVars>>

----------------------------------------------------------------------------

\* initialModel, and a process that has started no job yet.
initialModel ==
    /\ state = StateSelectFile
    /\ selectedFile = ""
    /\ transcription = EmptyText
    /\ error = ""
    /\ width = 80
    /\ height = 24
    /\ scrollOffset = 0
    /\ maxScroll = 0
    /\ spinnerTick = FALSE
    /\ quitCmd = FALSE
    /\ exited = FALSE
    /\ jobPc = "idle"
    /\ jobMsg = NoMsg
    /\ inputPath = ""
    /\ tempDir = FALSE
    /\ tempFiles = {}
    /\ started = 0
    /\ delivered = 0

Init ==
    /\ initialModel
    /\ wrapInput = EmptyText
    /\ wrapWidth = 0
    /\ wrapOutput = <<>>
    /\ wrapPass = 0

Next ==
    \/ \E k \in Keys : UpdateKey(k)
    \/ \E w \in Widths, h \in Heights : UpdateWindowSize(w, h)
    \/ UpdateProcessComplete
    \/ UpdateProcessError
    \/ UpdateTick
    \/ Quit
    \/ JobMkdirAll
    \/ JobCheckDependencies
    \/ JobExtractAudio
    \/ JobWriteScript
    \/ JobTranscribe

Spec == Init /\ [][Next]_vars

\* The next step of the command started by startProcessing.  At most one of
\* these is enabled at a time: jobPc selects it.
JobProgress ==
    \/ JobMkdirAll
    \/ JobCheckDependencies
    \/ JobExtractAudio
    \/ JobWriteScript
    \/ JobTranscribe

\* The event loop takes the command's message: Update's two result cases.
MessageHandled == UpdateProcessComplete \/ UpdateProcessError

\* The command has returned a message that the running event loop has not
\* taken yet.  This is the enabling condition of MessageHandled, because a
\* returned message is a processCompleteMsg or a processErrorMsg.
MessagePending == ~exited /\ jobPc = "send"

\* Weak fairness of MessageHandled with its enabling condition written out:
\* a message that stays pending is eventually handled.
MessageFairness ==
    []<>(~MessagePending) \/ []<><<MessageHandled>>_vars

\* The program with a pipeline whose every stage ends (the external tools
\* return) and an event loop that handles a job message that is waiting.
FairSpec == Spec /\ WF_vars(JobProgress) /\ MessageFairness

----------------------------------------------------------------------------
(* model.View and model.renderScrollableTranscription *)

\* The branch of View's switch that is rendered.
viewShown ==
    CASE state = StateSelectFile -> "select"
      [] state = StateProcessing -> "processing"
      [] OTHER -> IF error # "" THEN "error" ELSE "transcription"

\* lines := strings.Split(wrappedText, "\n"), at the current size.
renderedLines == wrappedLines(transcription, width)

\* startLine and endLine of renderScrollableTranscription, after the
\* correction for an offset at or beyond the end; the window is the Go slice
\* lines[windowStart:windowEnd].
windowStart ==
    IF scrollOffset >= Len(renderedLines)
    THEN max(0, Len(renderedLines) - transcriptionHeight(height))
    ELSE scrollOffset

windowEnd ==
    IF scrollOffset >= Len(renderedLines)
    THEN Len(renderedLines)
    ELSE min(scrollOffset + transcriptionHeight(height), Len(renderedLines))

RECURSIVE padLines(_, _)
padLines(ls, n) == IF Len(ls) < n THEN padLines(Append(ls, <<>>), n) ELSE ls

\* visibleLines without the loop that pads it.
visibleLinesUnpadded ==
    SplitLines(JoinLines(SubSeq(renderedLines, windowStart + 1, windowEnd)))

\* visibleLines as it is handed to the style: the window, joined and split
\* again, padded with empty lines to the height of the box.
visibleLines ==
    padLines(SplitLines(JoinLines(SubSeq(renderedLines, windowStart + 1, windowEnd))),
             transcriptionHeight(height))

\* View shows "Line a-b of N" when m.maxScroll > 0 in the success branch.
indicatorShown == state = StateComplete /\ error = "" /\ maxScroll > 0
indicatorFrom == scrollOffset + 1
indicatorTo == min(scrollOffset + (height - 10), Len(renderedLines))
indicatorTotal == Len(renderedLines)

----------------------------------------------------------------------------
(* wrapText on its own *)

\* Longest text and largest width wrapText is applied to.
MaxWrapLen == 5
MaxWrapWidth == 4

\* Characters of the texts: a one-byte letter, a two-byte letter, and the two
\* kinds of whitespace.
WrapAlphabet == {"a", "é", " ", "\n"}

TheQuickBrownFox ==
    <<"t", "h", "e", " ", "q", "u", "i", "c", "k", " ",
      "b", "r", "o", "w", "n", " ", "f", "o", "x">>

WrapTexts == UNION {[1..n -> WrapAlphabet] : n \in 0..MaxWrapLen} \cup {TheQuickBrownFox}
WrapWidths == 1..MaxWrapWidth \cup {10}

RECURSIVE joinSpacesFrom(_, _)
joinSpacesFrom(lines, i) ==
    IF i > Len(lines) THEN <<>>
    ELSE IF i = Len(lines) THEN lines[i]
    ELSE lines[i] \o <<" ">> \o joinSpacesFrom(lines, i + 1)

\* The lines of a result put together again with single spaces.
joinSpaces(lines) == joinSpacesFrom(lines, 1)

WrapInit ==
    /\ initialModel
    /\ wrapInput \in WrapTexts
    /\ wrapWidth \in WrapWidths
    /\ wrapOutput = <<>>
    /\ wrapPass = 0

\* wrapText(text, width), and the split of its result into lines.
WrapFirst ==
    /\ wrapPass = 0
    /\ wrapOutput' = SplitLines(wrapText(wrapInput, wrapWidth))
    /\ wrapPass' = 1
    /\ UNCHANGED <<wrapInput, wrapWidth, modelVars, loopVars, jobVars, delivered>>

\* wrapText applied to the rejoined lines of the first result.
WrapAgain ==
    /\ wrapPass = 1
    /\ wrapInput' = joinSpaces(wrapOutput)
    /\ wrapOutput' = SplitLines(wrapText(joinSpaces(wrapOutput), wrapWidth))
    /\ wrapPass' = 2
    /\ UNCHANGED <<wrapWidth, modelVars, loopVars, jobVars, delivered>>

WrapNext == WrapFirst \/ WrapAgain

WrapSpec == WrapInit /\ [][WrapNext]_vars

----------------------------------------------------------------------------
(* Properties *)

\* The wrapped line count and the scroll range the current text and terminal
\* size call for.
lineCount(w) == Len(wrappedLines(transcription, w))
scrollRange(w, h) == max(0, lineCount(w) - transcriptionHeight(h))

\* The step is Update handling the job's message.
JobMessageHandled(type) ==
    /\ jobMsg.type = type
    /\ delivered' = delivered + 1

\* C1: after every event the scroll offset lies between 0 and the stored
\* maxScroll.
C1_ScrollWithinRange == 0 <= scrollOffset /\ scrollOffset <= maxScroll

\* C1 witness: a transcription scrolled to the end of a range of two lines,
\* after a resize.
C1_Witness ==
    /\ state = StateComplete
    /\ transcription # EmptyText
    /\ maxScroll = 2
    /\ scrollOffset = maxScroll
    /\ scrollRange(width, height) # maxScroll

\* C2: while a transcription is shown, the stored maxScroll is the one the
\* current terminal size calls for (so every resize recomputes it).
C2_MaxScrollTracksSize ==
    (state = StateComplete /\ transcription # EmptyText)
        => maxScroll = scrollRange(width, height)

\* C3: a resize while a transcription is shown leaves the scroll offset at
\* the smaller of its previous value and the scroll range of the new size.
C3_ResizeReclamps ==
    [][(/\ state = StateComplete
        /\ transcription # EmptyText
        /\ <<width', height'>> # <<width, height>>)
          => scrollOffset' = min(scrollOffset, scrollRange(width', height'))]_vars

\* C4: the transcription and the error are never both set.
C4_ResultXorError == ~(transcription # EmptyText /\ error # "")

\* C4 witness: a failed job's error is shown, and no transcription is set.
C4_Witness ==
    /\ state = StateComplete
    /\ error # ""
    /\ transcription = EmptyText
    /\ delivered = 1

\* C5: selectedFile is set exactly in StateProcessing and StateComplete, and
\* once set no event changes it.
C5_SelectedFileSetOnce ==
    /\ [](selectedFile # "" <=> state \in {StateProcessing, StateComplete})
    /\ [][selectedFile # "" => selectedFile' = selectedFile]_vars

\* C5 witness: the result of a job is shown and the chosen file is still the
\* one the job was started with.
C5_Witness ==
    /\ state = StateComplete
    /\ selectedFile \in Paths
    /\ selectedFile = inputPath
    /\ delivered = 1

\* C6: the job's failure message, handled in StateProcessing, leads to
\* StateComplete with the error equal to the message and no transcription.
C6_FailureHandled ==
    [][(JobMessageHandled("error") /\ state = StateProcessing)
          => /\ state' = StateComplete
             /\ error' = jobMsg.err
             /\ transcription' = EmptyText]_vars

\* C6 witness: the failure of the audio extraction is shown.
C6_Witness ==
    /\ state = StateComplete
    /\ error = ErrExtract
    /\ jobPc = "done"

\* C7: the job's success message, handled in StateProcessing, leads to
\* StateComplete with the transcription equal to the text, no error, the
\* scroll offset 0 and maxScroll the scroll range of the text at the size
\* known at that moment.
C7_SuccessHandled ==
    [][(JobMessageHandled("complete") /\ state = StateProcessing)
          => /\ state' = StateComplete
             /\ transcription' = jobMsg.text
             /\ error' = ""
             /\ scrollOffset' = 0
             /\ maxScroll' = max(0, Len(wrappedLines(jobMsg.text, width))
                                      - transcriptionHeight(height))]_vars

\* C7 witness: a transcription has just arrived that is longer than the box,
\* on a terminal whose box has the minimum height.
C7_Witness ==
    /\ state = StateComplete
    /\ transcription # EmptyText
    /\ error = ""
    /\ scrollOffset = 0
    /\ maxScroll > 0
    /\ height - 10 < 5
    /\ maxScroll = scrollRange(width, height)

C9_EnterProcessesAnother ==
    (state = StateComplete /\ ~exited)
        => ENABLED (UpdateKey("enter") /\ state' = StateSelectFile)

\* C10: a job is started by the choice of a file and by nothing else, once
\* per choice, and no more job messages are handled than jobs were started.
C10_OneJobPerSelection ==
    /\ [](delivered <= started)
    /\ [][/\ started' # started
             => /\ started' = started + 1
                /\ state = StateSelectFile
                /\ state' = StateProcessing
                /\ selectedFile' \in Paths
                /\ inputPath' = selectedFile'
          /\ (state = StateSelectFile /\ state' # state)
             => started' = started + 1]_vars

\* C10 witness: the one job started has failed and its message was handled;
\* no second job was started.
C10_Witness ==
    /\ started = 1
    /\ delivered = 1
    /\ error # ""
    /\ jobPc = "done"

\* The job has been started and has not yet returned its message.
JobRunning == jobPc \in {"mkdir", "deps", "extract", "script", "python"}

\* C11: while the job runs in StateProcessing the event loop is not held up:
\* a quit key is handled and its quit message ends the program without any
\* step of the job, and a resize is handled, storing the new size and leaving
\* the mode and the job alone.
C11_ResponsiveWhileProcessing ==
    (state = StateProcessing /\ JobRunning /\ ~exited)
        => /\ \A k \in {"q", "ctrl+c"} :
                ENABLED (UpdateKey(k) /\ quitCmd' /\ UNCHANGED <<state, jobVars>>)
           /\ quitCmd => ENABLED (Quit /\ exited' /\ UNCHANGED <<state, jobVars>>)
           /\ \A w \in Widths, h \in Heights :
                ENABLED (/\ UpdateWindowSize(w, h)
                         /\ width' = w
                         /\ height' = h
                         /\ UNCHANGED <<state, jobVars>>)

\* C11 witness: the program has ended on a quit while the job was still
\* extracting audio, after a resize.
C11_Witness ==
    /\ exited
    /\ state = StateProcessing
    /\ jobPc = "extract"
    /\ <<width, height>> # <<80, 24>>

\* C12: while a transcription is shown, the window of the viewport is a valid
\* slice of the wrapped lines, and the viewport has exactly
\* max(height - 10, 5) lines: the lines of the window, then empty lines.
C12_ViewportHeight ==
    (state = StateComplete /\ transcription # EmptyText)
        => LET lines == renderedLines
               from == windowStart
               to == windowEnd
               shown == visibleLines
           IN  /\ 0 <= from
               /\ from <= to
               /\ to <= Len(lines)
               /\ Len(shown) = max(height - 10, 5)
               /\ \A i \in 1..Len(shown) :
                     shown[i] = IF i <= to - from THEN lines[from + i]
                                                 ELSE <<>>

\* C12 witness: after a resize the scroll offset lies beyond the last wrapped
\* line, and the viewport holds padding.
C12_Witness ==
    /\ state = StateComplete
    /\ transcription # EmptyText
    /\ scrollOffset >= Len(renderedLines)
    /\ windowEnd - windowStart < transcriptionHeight(height)

\* C13: while a transcription is shown, end moves the scroll offset to
\* maxScroll, home to 0, down one further unless it is at maxScroll, up one
\* back unless it is at 0; the keys change nothing else of the model.
C13_ScrollKeys ==
    (state = StateComplete /\ transcription # EmptyText /\ ~exited)
        => \A k \in {"up", "k", "down", "j", "home", "end"} :
              LET target ==
                    CASE k = "end" -> maxScroll
                      [] k = "home" -> 0
                      [] k \in {"down", "j"} ->
                            IF scrollOffset = maxScroll THEN scrollOffset
                                                        ELSE scrollOffset + 1
                      [] OTHER ->
                            IF scrollOffset = 0 THEN scrollOffset
                                                ELSE scrollOffset - 1
              IN  /\ ENABLED (UpdateKey(k) /\ scrollOffset' = target)
                  /\ ~ENABLED (UpdateKey(k) /\ scrollOffset' # target)
                  /\ ~ENABLED (UpdateKey(k) /\ <<state, maxScroll, transcription>>'
                                                  # <<state, maxScroll, transcription>>)

\* C13 witness: a transcription scrolled to the middle of a range of two
\* lines, where down and up both move.
C13_Witness ==
    /\ state = StateComplete
    /\ transcription # EmptyText
    /\ maxScroll = 2
    /\ scrollOffset = 1
    /\ ~exited

\* The tokens of a sequence of lines, read line by line.
tokensOf(lines) == Fields(JoinLines(lines))

C15_GreedyPacking ==
    wrapPass >= 1
        => /\ tokensOf(wrapOutput) = Fields(wrapInput)
           /\ Fields(wrapInput) # <<>>
                => /\ \A i \in 1..Len(wrapOutput) :
                         /\ wrapOutput[i] = joinSpaces(Fields(wrapOutput[i]))
                         /\ Len(Fields(wrapOutput[i])) >= 1
                         /\ Len(Fields(wrapOutput[i])) > 1
                               => Len(wrapOutput[i]) <= wrapWidth
                   /\ \A i \in 1..(Len(wrapOutput) - 1) :
                         Len(wrapOutput[i]) + 1 + Len(Fields(wrapOutput[i + 1])[1])
                             > wrapWidth
           /\ (wrapInput = TheQuickBrownFox /\ wrapWidth = 10 /\ wrapPass = 1)
                => wrapOutput = <<SubSeq(TheQuickBrownFox, 1, 9),
                                  SubSeq(TheQuickBrownFox, 11, 19)>>

C17_TempRemovedOnReturn ==
    jobPc \in {"send", "done"} => (~tempDir /\ tempFiles = {})

\* C17 witness: the job failed in the transcription, after the audio and the
\* script were written, and the directory is gone.
C17_Witness ==
    /\ jobPc = "send"
    /\ jobMsg = processErrorMsg(ErrTranscribe)
    /\ ~tempDir
    /\ tempFiles = {}

\* C18: a transcription run whose output is empty can end as a success, with
\* the notice as its text; and once that result is handled the error is unset
\* and View renders the transcription, not the error.
C18_EmptyResultIsSuccess ==
    /\ (jobPc = "python" /\ ~exited)
          => ENABLED (JobTranscribe /\ jobMsg' = processCompleteMsg(NoSpeech))
    /\ (state = StateComplete /\ transcription = NoSpeech)
          => (error = "" /\ viewShown = "transcription")

\* C18 witness: the notice for an empty transcription is shown as a result.
C18_Witness ==
    /\ state = StateComplete
    /\ transcription = NoSpeech
    /\ error = ""
    /\ viewShown = "transcription"

\* C19: a job that has returned holds a success or a failure message, and,
\* with every stage of the pipeline ending and the event loop handling the
\* message, StateProcessing leads to StateComplete unless the user quits.
C19_JobResolves ==
    /\ [](jobPc = "send" => jobMsg.type \in {"complete", "error"})
    /\ (state = StateProcessing) ~> (state = StateComplete \/ quitCmd)

\* C19 witness: a failed dependency check has arrived as an error message,
\* without a quit.
C19_Witness ==
    /\ state = StateComplete
    /\ error = ErrDependencies
    /\ ~quitCmd

\* C20: when the scroll indicator is shown, its "Line a-b of N" has
\* 1 <= a <= b <= N, N the number of wrapped lines, and a..b the lines of the
\* viewport's window.
C20_IndicatorMatchesViewport ==
    indicatorShown
        => /\ 1 <= indicatorFrom
           /\ indicatorFrom <= indicatorTo
           /\ indicatorTo <= indicatorTotal
           /\ indicatorTotal = Len(renderedLines)
           /\ indicatorFrom = windowStart + 1
           /\ indicatorTo = windowEnd

====
